---- MODULE Spec2Model ----
(***************************************************************************)
(* A model of db_viewer_0.3.py: the DatabaseViewer window, its undo stack  *)
(* (QUndoStack), the table model it edits (QSqlTableModel with the         *)
(* OnFieldChange strategy), the SQLite statements it sends, and the four   *)
(* QUndoCommand classes.                                                   *)
(*                                                                         *)
(* Every handler is one action.  The work of a handler is written as       *)
(* operators over a record of the mutable state and a list of the calls    *)
(* still to be made, so that the slots a handler reaches through signals   *)
(* (setData -> dataChanged -> on_data_changed -> QUndoStack.push -> redo   *)
(* -> setData) are part of it.                                             *)
(***************************************************************************)
EXTENDS Integers, Sequences, FiniteSets, TLC

\* ------------------------------------------------------------------ bounds
MaxLog == 4         \* commands kept in the undo stack
MaxRows == 2        \* rows of a table
MaxGen == 3         \* connections created in one run
MaxHistory == 3     \* query history items

\* ------------------------------------------------------------------ values
\* Python None: what QSqlTableModel.data() gives for a role it does not
\* serve, and what a cell holds between setData(None) and the row's refresh.
None == "None"
\* A NULL read from the database.
NullV == "NULL"
\* Text typed by the user.
Texts == {"a", "b"}
Stored == Texts \cup {NullV}

\* What the engine keeps when `v` is written: None is written as NULL.
ToStored(v) == IF v = None THEN NullV ELSE v

\* ------------------------------------------------------------------ names
\* A table name is the sequence of its "_"-separated parts.
NoName == <<>>
TName == <<"t">>
UName == <<"u">>
\* f"{table_name}_temp"
temp_table(name) == Append(name, "temp")

Col(n, t) == [name |-> n, type |-> t]
Table(n, cs, rs) == [name |-> n, cols |-> cs, rows |-> rs]

\* ------------------------------------------------------------------ helpers
Range(s) == {s[i] : i \in DOMAIN s}
Min(a, b) == IF a < b THEN a ELSE b

RemoveAt(s, i) == SubSeq(s, 1, i - 1) \o SubSeq(s, i + 1, Len(s))
InsertAt(s, i, x) == SubSeq(s, 1, i - 1) \o <<x>> \o SubSeq(s, i, Len(s))

\* ------------------------------------------------------------------ engine
\* The database of the open connection is the sequence of its tables in
\* creation order (the order of QSqlDatabase.tables()).
HasTable(ts, n) == \E i \in DOMAIN ts : ts[i].name = n
TableIdx(ts, n) == CHOOSE i \in DOMAIN ts : ts[i].name = n
GetTable(ts, n) == ts[TableIdx(ts, n)]
TableNames(ts) == [i \in DOMAIN ts |-> ts[i].name]

ColNames(cs) == [i \in DOMAIN cs |-> cs[i].name]
ColIdx(cs, c) == CHOOSE i \in DOMAIN cs : cs[i].name = c
HasCol(cs, c) == \E i \in DOMAIN cs : cs[i].name = c

\* PRAGMA table_info(T): the columns of T; no rows for a table that is absent.
table_info(ts, n) == IF HasTable(ts, n) THEN GetTable(ts, n).cols ELSE <<>>

\* The result of one statement: whether the engine accepted it, and the
\* database afterwards (unchanged when it was rejected).
Res(ok, ts) == [ok |-> ok, tabs |-> ts]

\* CREATE TABLE n (cols): rejected for an empty column list (a syntax
\* error) and for a name that is taken.
CreateTable(ts, n, cs) ==
    IF cs = <<>> \/ HasTable(ts, n)
    THEN Res(FALSE, ts)
    ELSE Res(TRUE, Append(ts, Table(n, cs, <<>>)))

\* The row of dst that INSERT ... SELECT builds from a row of src: the
\* listed columns copied, every other column NULL.
CopiedRow(dcols, scols, names, srow) ==
    [j \in DOMAIN dcols |->
        IF dcols[j].name \in Range(names)
        THEN srow[ColIdx(scols, dcols[j].name)]
        ELSE NullV]

\* INSERT INTO dst (names) SELECT names FROM src
InsertSelect(ts, dst, names, src) ==
    IF names = <<>> \/ ~HasTable(ts, dst) \/ ~HasTable(ts, src)
    THEN Res(FALSE, ts)
    ELSE LET d == GetTable(ts, dst)
             s == GetTable(ts, src)
         IN  IF \E i \in DOMAIN names : ~HasCol(d.cols, names[i]) \/ ~HasCol(s.cols, names[i])
             THEN Res(FALSE, ts)
             ELSE LET new == [k \in DOMAIN s.rows |->
                                 CopiedRow(d.cols, s.cols, names, s.rows[k])]
                  IN  Res(TRUE, [ts EXCEPT ![TableIdx(ts, dst)].rows = d.rows \o new])

\* DROP TABLE n
DropTable(ts, n) ==
    IF ~HasTable(ts, n) THEN Res(FALSE, ts)
    ELSE Res(TRUE, RemoveAt(ts, TableIdx(ts, n)))

\* ALTER TABLE old RENAME TO new
RenameTable(ts, old, new) ==
    IF ~HasTable(ts, old) \/ HasTable(ts, new) THEN Res(FALSE, ts)
    ELSE Res(TRUE, [ts EXCEPT ![TableIdx(ts, old)].name = new])

\* ALTER TABLE n ADD COLUMN c TEXT
AddColumnSql(ts, n, c) ==
    IF ~HasTable(ts, n) THEN Res(FALSE, ts)
    ELSE LET t == GetTable(ts, n)
         IN  IF HasCol(t.cols, c) THEN Res(FALSE, ts)
             ELSE Res(TRUE, [ts EXCEPT ![TableIdx(ts, n)] =
                        Table(n, Append(t.cols, Col(c, "TEXT")),
                              [k \in DOMAIN t.rows |-> Append(t.rows[k], NullV)])])

\* The columns the rebuild keeps: those of PRAGMA table_info whose name is
\* not column_name.
columns_info(ts, n, c) ==
    LET KeepIt(col) == col.name # c
    IN  SelectSeq(table_info(ts, n), KeepIt)

\* The four statements of the rebuild, each sent whatever became of the one
\* before it (the result of query.exec is not read).
\* oks: which of CREATE, INSERT, DROP, RENAME the engine accepted.
RebuildWithout(ts, n, c) ==
    LET info == columns_info(ts, n, c)
        tmp == temp_table(n)
        r1 == CreateTable(ts, tmp, info)
        r2 == InsertSelect(r1.tabs, tmp, ColNames(info), n)
        r3 == DropTable(r2.tabs, n)
        r4 == RenameTable(r3.tabs, tmp, n)
    IN  [tabs |-> r4.tabs, oks |-> <<r1.ok, r2.ok, r3.ok, r4.ok>>]

\* ------------------------------------------------------------------ files
\* The databases of the files the user can pick in the Open dialog.
IdA == <<Col("id", "INTEGER"), Col("a", "TEXT")>>
OnlyA == <<Col("a", "TEXT")>>
Row1 == <<"a", "b">>
Row2 == <<"b", NullV>>
Databases ==
    { <<>>,
      <<Table(TName, IdA, <<Row1, Row2>>)>>,
      <<Table(TName, IdA, <<Row1>>)>>,
      <<Table(TName, OnlyA, <<<<"a">>, <<"b">>>>)>>,
      <<Table(TName, IdA, <<Row1>>), Table(temp_table(TName), IdA, <<Row2>>)>>,
      <<Table(temp_table(TName), OnlyA, <<<<"b">>>>), Table(TName, IdA, <<Row1>>)>> }

\* The column names the user enters in the Add Column dialog.
NewColumns == {"x", "a"}

\* ------------------------------------------------------------------ state
VARIABLES
    db,        \* self.db: "none", "open", or "closed" (a handle that is not open)
    gen,       \* the number of the connection self.db stands for (0: none yet)
    live,      \* the connections that are open
    tabs,      \* the tables of the database self.db was opened on
    items,     \* the items of table_combo
    combo,     \* table_combo.currentText(): a table name, or NoName
    model,     \* self.model: what the table view shows
    mrows,     \* the rows of self.model, in its order
    dirty,     \* the cell of self.model that holds a write not yet stored
    log,       \* the commands of undo_stack
    idx,       \* the index of undo_stack: the number of commands done
    history,   \* the items of query_history
    status,    \* what the status bar shows
    dialog,    \* the message box the last handler raised, or "none"
    crashed,   \* the process has been aborted
    quit,      \* the window has been closed
    ev         \* what the last handler did (history variable)

vars == <<db, gen, live, tabs, items, combo, model, mrows, dirty, log, idx,
          history, status, dialog, crashed, quit, ev>>

\* self.model: kind "none" (no model yet), "table" (display_table) or "query"
\* (the result of a SELECT); the table it reads, the connection it was made
\* on and the column headers it shows.
Model(k, t, g, cs) == [kind |-> k, table |-> t, gen |-> g, cols |-> cs]
NoModel == Model("none", NoName, 0, <<>>)

\* A row of the model: k > 0, the k-th stored row; k = 0, a row inserted in
\* the model and not stored (vals: what was set in it); k = -1, a row that
\* was deleted and still takes its place until the next select().
MRow(k, vs) == [k |-> k, vals |-> vs]
Select(ts, n) == IF HasTable(ts, n)
                 THEN [i \in DOMAIN GetTable(ts, n).rows |-> MRow(i, <<>>)]
                 ELSE <<>>
HasPending(rows) == \E i \in DOMAIN rows : rows[i].k = 0

NoDirty == [on |-> FALSE, row |-> 0, col |-> 0, val |-> None]
DirtyCell(r, c, v) == [on |-> TRUE, row |-> r, col |-> c, val |-> v]

\* ------------------------------------------------------------------ commands
\* One record for the four QUndoCommand classes; the fields a class does not
\* have are left at their defaults.  m is the model (UpdateCommand,
\* AddRowCommand) and g the connection (self.db, self.model's database) the
\* command was built with.
Cmd(kind, m, g, row, col, old, new, table, column) ==
    [kind |-> kind, m |-> m, gen |-> g, row |-> row, col |-> col, old |-> old,
     new |-> new, table |-> table, column |-> column]
UpdateCommand(m, row, col, old, new) == Cmd("update", m, m.gen, row, col, old, new, NoName, "")
AddRowCommand(m, row) == Cmd("addrow", m, m.gen, row, 0, None, None, NoName, "")
AddColumnCommand(g, t, c) == Cmd("addcol", NoModel, g, 0, 0, None, None, t, c)
DeleteColumnCommand(g, t, c) == Cmd("delcol", NoModel, g, 0, 0, None, None, t, c)

\* ------------------------------------------------------------------ the state as a record
\* pushes and drops are history: the pushes on the undo stack and the runs of
\* the rebuild sequence that the handler under way has made so far; ret is
\* what the last submitAll() returned.
St == [db |-> db, gen |-> gen, live |-> live, tabs |-> tabs, items |-> items,
       combo |-> combo, model |-> model, mrows |-> mrows, dirty |-> dirty,
       log |-> log, idx |-> idx, history |-> history, status |-> status,
       dialog |-> "none", crashed |-> crashed, quit |-> quit,
       pushes |-> <<>>, drops |-> <<>>, ret |-> TRUE]

\* What a handler is given besides its arguments: re, whether setData on a
\* row that is inserted and not stored signals dataChanged when the value
\* is the one the row already has; acc, whether the engine accepts the
\* INSERT of a row; ub, what reading a deleted command gives.
In(re, acc, ub) == [re |-> re, acc |-> acc, ub |-> ub]
Inputs == {In(re, acc, ub) : re \in BOOLEAN, acc \in BOOLEAN, ub \in {"stale", "obsolete", "abort"}}
\* Those that can matter in state s: re and acc with a row that is inserted
\* and not stored (or about to be), ub in a redo.
InputsOf(s, inserting, redoing) ==
    {in \in Inputs :
        /\ (inserting \/ HasPending(s.mrows) \/ (in.re /\ in.acc))
        /\ (redoing \/ in.ub = "abort")}
\* The inputs of a handler that meets none of the three.
StdIn == In(TRUE, TRUE, "abort")

\* Statements reach the database only through the open connection they
\* were built on.
Usable(s, g) == s.db = "open" /\ g = s.gen

\* ------------------------------------------------------------------ the table model
\* A field of an inserted row that nothing was written to.
Unset == "unset"

\* The value of column `name` in the k-th stored row of table n; None when
\* the table, the row or the column is not there.
StoredCell(ts, n, k, name) ==
    IF HasTable(ts, n)
    THEN LET t == GetTable(ts, n)
         IN  IF k \in DOMAIN t.rows /\ HasCol(t.cols, name)
             THEN t.rows[k][ColIdx(t.cols, name)]
             ELSE None
    ELSE None

\* self.model.data(index(r, c)): the value the current model shows in row r,
\* column c (both from 0); None for an index outside of it.
Data(s, r, c) ==
    LET m == s.model
    IN  IF m.kind = "none" \/ r + 1 > Len(s.mrows) \/ c + 1 > Len(m.cols)
        THEN None
        ELSE LET e == s.mrows[r + 1]
             IN  IF s.dirty.on /\ s.dirty.row = r /\ s.dirty.col = c THEN s.dirty.val
                 ELSE IF e.k = 0
                      THEN (IF e.vals[c + 1] = Unset THEN NullV ELSE e.vals[c + 1])
                 ELSE IF e.k < 0 THEN None
                 ELSE StoredCell(s.tabs, m.table, e.k, m.cols[c + 1])

\* self.model.data(index, Qt.ItemDataRole.UserRole): QSqlTableModel serves
\* the display and edit roles only, every other role gives no value.
UserRoleData(s, r, c) == None

\* UPDATE of one cell of the k-th stored row of table n.
WriteCell(ts, n, k, name, v) ==
    LET t == GetTable(ts, n)
    IN  [ts EXCEPT ![TableIdx(ts, n)].rows[k][ColIdx(t.cols, name)] = ToStored(v)]

CanWrite(s, m, k, name) ==
    /\ Usable(s, m.gen)
    /\ HasTable(s.tabs, m.table)
    /\ k \in DOMAIN GetTable(s.tabs, m.table).rows
    /\ HasCol(GetTable(s.tabs, m.table).cols, name)

\* The row that INSERT stores for an inserted row of model m.
InsertedRow(tcols, m, vals) ==
    [j \in DOMAIN tcols |->
        IF tcols[j].name \in Range(m.cols)
        THEN LET i == CHOOSE i \in DOMAIN m.cols : m.cols[i] = tcols[j].name
             IN  IF vals[i] = Unset THEN NullV ELSE ToStored(vals[i])
        ELSE NullV]

PendingAt(rows) == CHOOSE i \in DOMAIN rows : rows[i].k = 0

\* Whether submitAll() of model m stores what is pending: a row none of
\* whose fields was written has no field to insert and is refused.
SubmitOk(s, in, m) ==
    IF m # s.model \/ m.kind # "table" \/ ~HasPending(s.mrows) THEN ~s.dirty.on
    ELSE LET e == s.mrows[PendingAt(s.mrows)]
         IN  /\ \E i \in DOMAIN e.vals : e.vals[i] # Unset
             /\ Usable(s, m.gen)
             /\ HasTable(s.tabs, m.table)
             /\ \A i \in DOMAIN m.cols : HasCol(GetTable(s.tabs, m.table).cols, m.cols[i])
             /\ in.acc

\* ------------------------------------------------------------------ calls in progress
\* A handler runs to its end before the next one starts, and what it calls
\* runs inside it: setData signals dataChanged, the slot on_data_changed
\* pushes a command, the push runs the command's redo(), which calls
\* setData.  The calls still to be made are kept as a list, first to run
\* first; a call that makes other calls puts them in front of the list.
\* op: what is called; m, row, col, val, cmd: its arguments; n, lg: the
\* index and the commands of the undo stack when the caller started.
Task(op, m, row, col, val, cmd, n, lg) ==
    [op |-> op, m |-> m, row |-> row, col |-> col, val |-> val, cmd |-> cmd,
     n |-> n, lg |-> lg]
NoCmd == Cmd("none", NoModel, 0, 0, 0, None, None, NoName, "")
Call(op) == Task(op, NoModel, 0, 0, None, NoCmd, 0, <<>>)
CallModel(op, m, row, col, val, n) == Task(op, m, row, col, val, NoCmd, n, <<>>)
CallCmd(op, cmd, n, lg) == Task(op, NoModel, 0, 0, None, cmd, n, lg)
CallWith(op, val) == Task(op, NoModel, 0, 0, val, NoCmd, 0, <<>>)

\* What one call gives: the state it leaves and the calls it makes.
Do(s, tasks) == [s |-> s, tasks |-> tasks]
Done(s) == Do(s, <<>>)

\* QUndoStack.push(cmd): cmd.redo() runs first; then the commands right of
\* the index are deleted, cmd is appended and the index moves past it.
Push(s, t) ==
    Do(s, <<CallCmd("RedoCmd", t.cmd, 0, <<>>), CallCmd("PushBody", t.cmd, s.idx, s.log)>>)

PushRec(t, s1) == [cmd |-> t.cmd, preLog |-> t.lg, preIdx |-> t.n,
                   postLog |-> s1.log, postIdx |-> s1.idx]
\* A push that keeps the commands right of the index.
PushKeepsTail(s, t) ==
    LET s1 == [s EXCEPT !.log = Append(s.log, t.cmd), !.idx = s.idx + 1]
    IN  Done([s1 EXCEPT !.pushes = Append(s.pushes, PushRec(t, s1))])
\* The part of push after cmd.redo().  With an index beyond the list (see
\* redo) the read of the command left of the index is out of range; the
\* model has the process end there.
PushBody(s, t) ==
    IF s.idx > Len(s.log) THEN Done([s EXCEPT !.crashed = TRUE])
    ELSE LET s1 == [s EXCEPT !.log = Append(SubSeq(s.log, 1, s.idx), t.cmd),
                             !.idx = s.idx + 1]
         IN  Done([s1 EXCEPT !.pushes = Append(s.pushes, PushRec(t, s1))])

\* self.status_bar.showMessage(...)
ShowMessage(s, t) == Done([s EXCEPT !.status = t.val])

\* on_data_changed(top_left, bottom_right): reads the new value and the old
\* value through self.model and pushes an UpdateCommand when they differ.
OnDataChanged(s, t) ==
    LET new_value == Data(s, t.row, t.col)
        old_value == UserRoleData(s, t.row, t.col)
    IN  IF old_value # new_value
        THEN Do(s, <<CallCmd("Push", UpdateCommand(s.model, t.row, t.col, old_value, new_value),
                             0, <<>>),
                     CallWith("ShowMessage", "cell updated")>>)
        ELSE Done(s)

\* QSqlTableModel.setData(index(r, c), v) on model m under OnFieldChange:
\* nothing for an index outside the model, for a cell that cannot be edited
\* (a deleted row; any cell while another one is dirty) and for a value
\* equal to the one shown; else the cell takes v, dataChanged is signalled,
\* the row is written to the database (Submit) and, written, read back, which
\* signals dataChanged for the row (top left: its column 0).  A row that is
\* inserted and not stored is not written by setData.
SetDataPending(s, in, t) ==
    IF ~in.re /\ t.val = Data(s, t.row, t.col) THEN Done(s)
    ELSE IF in.re /\ t.val # None THEN Done([s EXCEPT !.crashed = TRUE])
    ELSE Do([s EXCEPT !.mrows[t.row + 1].vals[t.col + 1] = t.val],
            <<CallModel("OnDataChanged", t.m, t.row, t.col, None, 0)>>)

SetDataStored(s, t, k) ==
    Do([s EXCEPT !.dirty = DirtyCell(t.row, t.col, t.val)],
       <<CallModel("OnDataChanged", t.m, t.row, t.col, None, 0),
         CallModel("Submit", t.m, t.row, t.col, t.val, k)>>)

\* The same for a model that display_table or execute_query has replaced as
\* self.model: it is still connected to on_data_changed and still writes
\* through its connection; its rows are taken to be the stored ones.
SetDataOld(s, t) ==
    IF t.col + 1 > Len(t.m.cols)
       \/ StoredCell(s.tabs, t.m.table, t.row + 1, t.m.cols[t.col + 1]) \in {None, t.val}
    THEN Done(s)
    ELSE Do(s, <<CallModel("OnDataChanged", t.m, t.row, t.col, None, 0),
                 CallModel("Submit", t.m, t.row, t.col, t.val, t.row + 1)>>)

SetData(s, in, t) ==
    IF t.m.kind # "table" THEN Done(s)
    ELSE IF t.m # s.model THEN SetDataOld(s, t)
    ELSE IF t.row + 1 > Len(s.mrows) \/ t.col + 1 > Len(t.m.cols) THEN Done(s)
    ELSE IF s.mrows[t.row + 1].k < 0 THEN Done(s)
    ELSE IF s.mrows[t.row + 1].k = 0 THEN SetDataPending(s, in, t)
    ELSE IF HasPending(s.mrows)
            \/ (s.dirty.on /\ ~(s.dirty.row = t.row /\ s.dirty.col = t.col)) THEN Done(s)
    ELSE IF t.val = Data(s, t.row, t.col) THEN Done(s)
    ELSE SetDataStored(s, t, s.mrows[t.row + 1].k)

\* The write of setData under OnFieldChange: the UPDATE of the row (t.n: the
\* stored row) and selectRow, which signals dataChanged for the row.
Submit(s, t) ==
    IF ~CanWrite(s, t.m, t.n, t.m.cols[t.col + 1]) THEN Done(s)
    ELSE Do([s EXCEPT !.tabs = WriteCell(s.tabs, t.m.table, t.n, t.m.cols[t.col + 1], t.val),
                      !.dirty = IF t.m = s.model THEN NoDirty ELSE s.dirty],
            <<CallModel("OnDataChanged", t.m, t.row, 0, None, 0)>>)

\* model.insertRows(row, 1): refused beyond the last row and while the model
\* holds a write that is not stored.
InsertRows(s, m, row) ==
    IF m # s.model \/ m.kind # "table" THEN s
    ELSE IF row > Len(s.mrows) \/ HasPending(s.mrows) \/ s.dirty.on THEN s
    ELSE [s EXCEPT !.mrows = InsertAt(s.mrows, row + 1,
                                      MRow(0, [i \in DOMAIN m.cols |-> Unset]))]

\* model.removeRows(row, 1): an inserted row that is not stored is dropped
\* from the model; a stored row is deleted from the table at once and keeps
\* its place in the model.
RemoveRows(s, m, row) ==
    IF m # s.model \/ m.kind # "table" \/ row + 1 > Len(s.mrows) THEN s
    ELSE LET e == s.mrows[row + 1]
         IN  IF e.k = 0 THEN [s EXCEPT !.mrows = RemoveAt(s.mrows, row + 1)]
             ELSE IF e.k < 0 \/ HasPending(s.mrows) \/ s.dirty.on THEN s
             ELSE IF ~(Usable(s, m.gen) /\ HasTable(s.tabs, m.table)
                       /\ e.k \in DOMAIN GetTable(s.tabs, m.table).rows) THEN s
             ELSE [s EXCEPT
                     !.tabs[TableIdx(s.tabs, m.table)].rows = RemoveAt(@, e.k),
                     !.mrows = [i \in DOMAIN s.mrows |->
                                  IF i = row + 1 THEN MRow(-1, <<>>)
                                  ELSE IF s.mrows[i].k > e.k
                                       THEN MRow(s.mrows[i].k - 1, <<>>)
                                       ELSE s.mrows[i]]]

\* model.submitAll(): the inserted row, if the engine takes it, is appended
\* to the table and read back (dataChanged for the row).  ret is what
\* submitAll returns.
Return(s, t) == Done([s EXCEPT !.ret = t.val])
SubmitAll(s, in, t) ==
    IF t.m # s.model \/ ~HasPending(s.mrows) \/ ~SubmitOk(s, in, t.m)
    THEN Done([s EXCEPT !.ret = SubmitOk(s, in, t.m)])
    ELSE LET p == PendingAt(s.mrows)
             tb == GetTable(s.tabs, t.m.table)
         IN  Do([s EXCEPT
                   !.tabs[TableIdx(s.tabs, t.m.table)].rows =
                       Append(@, InsertedRow(tb.cols, t.m, s.mrows[p].vals)),
                   !.mrows[p] = MRow(Len(tb.rows) + 1, <<>>)],
                <<CallModel("OnDataChanged", t.m, p - 1, 0, None, 0),
                  CallWith("Return", TRUE)>>)

\* One run of the rebuild sequence, with its record in the history.
DropRec(who, s, n, c, r) ==
    [who |-> who, table |-> n, column |-> c,
     present |-> HasCol(table_info(s.tabs, n), c), oks |-> r.oks]
Rebuild(s, g, n, c, who) ==
    LET r == IF Usable(s, g) THEN RebuildWithout(s.tabs, n, c)
             ELSE [tabs |-> s.tabs, oks |-> <<FALSE, FALSE, FALSE, FALSE>>]
    IN  [s EXCEPT !.tabs = r.tabs, !.drops = Append(@, DropRec(who, s, n, c, r))]

AddColumnExec(s, g, n, c) ==
    IF Usable(s, g) THEN [s EXCEPT !.tabs = AddColumnSql(s.tabs, n, c).tabs] ELSE s

\* The redo() of the four command classes.
RedoCmd(s, t) ==
    CASE t.cmd.kind = "update" ->
           Do(s, <<CallModel("SetData", t.cmd.m, t.cmd.row, t.cmd.col, t.cmd.new, 0)>>)
      [] t.cmd.kind = "addrow" ->
           Do(InsertRows(s, t.cmd.m, t.cmd.row),
              <<CallModel("SubmitAll", t.cmd.m, 0, 0, None, 0)>>)
      [] t.cmd.kind = "addcol" ->
           Done(AddColumnExec(s, t.cmd.gen, t.cmd.table, t.cmd.column))
      [] t.cmd.kind = "delcol" ->
           Done(Rebuild(s, t.cmd.gen, t.cmd.table, t.cmd.column, "DeleteColumnCommand.redo"))

\* The undo() of the four command classes.
UndoCmd(s, t) ==
    CASE t.cmd.kind = "update" ->
           Do(s, <<CallModel("SetData", t.cmd.m, t.cmd.row, t.cmd.col, t.cmd.old, 0)>>)
      [] t.cmd.kind = "addrow" ->
           Do(RemoveRows(s, t.cmd.m, t.cmd.row),
              <<CallModel("SubmitAll", t.cmd.m, 0, 0, None, 0)>>)
      [] t.cmd.kind = "addcol" ->
           Done(Rebuild(s, t.cmd.gen, t.cmd.table, t.cmd.column, "AddColumnCommand.undo"))
      [] t.cmd.kind = "delcol" ->
           Done(AddColumnExec(s, t.cmd.gen, t.cmd.table, t.cmd.column))

\* ------------------------------------------------------------------ what a handler did

\* op: the handler; done: it went past its guards and dialogs; ok: it took
\* its success path; table, column, cmd, row, col, old, val: what it was
\* about (old: the stored value of the cell before an edit); pre: the tables
\* add_column, delete_column or add_row started from; pushes, drops: the pushes and the rebuild runs
\* the handler made.
Ev(op, done, ok, table, column, cmd, row, col, old, val, pre, t) ==
    [op |-> op, done |-> done, ok |-> ok, table |-> table, column |-> column,
     cmd |-> cmd, row |-> row, col |-> col, old |-> old, val |-> val,
     pre |-> pre, pushes |-> t.pushes, drops |-> t.drops]

\* The record of a handler that is about no table, column, command or cell.
PlainEv(op, done, ok, t) ==
    Ev(op, done, ok, NoName, "", NoCmd, 0, 0, None, None, <<>>, t)

\* The next state is the record t, the last handler's record is e.
Becomes(t, e) ==
    /\ db' = t.db /\ gen' = t.gen /\ live' = t.live /\ tabs' = t.tabs
    /\ items' = t.items /\ combo' = t.combo /\ model' = t.model
    /\ mrows' = t.mrows /\ dirty' = t.dirty /\ log' = t.log /\ idx' = t.idx
    /\ history' = t.history /\ status' = t.status /\ dialog' = t.dialog
    /\ crashed' = t.crashed /\ quit' = t.quit /\ ev' = e

\* What the model is bounded to.
Bounded(t) ==
    /\ Len(t.log) <= MaxLog
    /\ Len(t.mrows) <= MaxRows + 1
    /\ \A i \in DOMAIN t.tabs : Len(t.tabs[i].rows) <= MaxRows
    /\ Len(t.history) <= MaxHistory
    /\ t.gen <= MaxGen

Running == ~crashed /\ ~quit

\* ------------------------------------------------------------------ handlers
\* display_table(table_name)
display_table(s, name) ==
    IF name = NoName \/ s.db = "none" THEN s
    ELSE LET ts == IF s.db = "open" THEN s.tabs ELSE <<>>
         IN  [s EXCEPT !.model = Model("table", name, s.gen, ColNames(table_info(ts, name))),
                       !.mrows = Select(ts, name),
                       !.dirty = NoDirty,
                       !.status = "displaying table"]

\* table_combo.clear(); table_combo.addItems(self.db.tables()): the first
\* table becomes the current text, and currentTextChanged runs display_table.
RefreshCombo(s) ==
    LET names == TableNames(s.tabs)
        first == IF names = <<>> THEN NoName ELSE names[1]
    IN  display_table([s EXCEPT !.items = names, !.combo = first], first)

\* An open_database that leaves the previous connection open.
CloseNothing(s) == s
\* The "Close existing database if open" lines of open_database.
CloseExisting(s) ==
    IF s.db = "open" THEN [s EXCEPT !.db = "closed", !.live = @ \ {s.gen}] ELSE s

\* QSqlDatabase.addDatabase("QSQLITE", self.connection_name): a new connection
\* takes the name, not open yet.
AddDatabase(s) == [s EXCEPT !.db = "closed", !.gen = @ + 1]

\* undo_stack.clear()
ClearStack(s) == [s EXCEPT !.log = <<>>, !.idx = 0]

\* open_database with a file chosen: `file` is the database in it, `opens`
\* whether self.db.open() succeeds.
open_database(s, file, opens) ==
    LET s1 == AddDatabase(CloseExisting(s))
    IN  IF ~opens
        THEN [s1 EXCEPT !.dialog = "critical", !.status = "connection failed"]
        ELSE LET s2 == [s1 EXCEPT !.db = "open", !.live = @ \cup {s1.gen}, !.tabs = file]
                 s3 == [RefreshCombo(s2) EXCEPT !.status = "connected"]
                 s4 == ClearStack(s3)
             IN  IF file = <<>> THEN s4 ELSE display_table(s4, TableNames(file)[1])

\* closeEvent
closeEvent(s) ==
    [(IF s.db = "open" THEN [s EXCEPT !.db = "closed", !.live = @ \ {s.gen}] ELSE s)
        EXCEPT !.quit = TRUE]

\* The user picks a file of `files` in the Open dialog.
OpenAny(files) ==
    /\ Running
    /\ \E file \in files, opens \in BOOLEAN :
         LET t == open_database(St, file, opens)
         IN  /\ Bounded(t)
             /\ Becomes(t, PlainEv("open_database", TRUE, opens, t))

OpenDatabase == OpenAny(Databases)

CloseEvent ==
    /\ Running
    /\ LET t == closeEvent(St)
       IN  Becomes(t, PlainEv("closeEvent", TRUE, TRUE, t))

\* ------------------------------------------------------------------ queries
\* The characters of the query text a history item keeps.
HistoryChars == 50

\* The texts the user can run, by what the engine makes of them: a SELECT
\* of all rows of a table, a DELETE of all rows of a table, a statement the
\* parser refuses, and the empty text; len is the length of the text.
Query(kind, table, len) == [kind |-> kind, table |-> table, len |-> len]
Queries ==
    { Query("select", n, 20) : n \in {TName, UName} }
    \cup { Query("delete", TName, 60), Query("bad", NoName, 60), Query("empty", NoName, 0) }

\* query.exec(query_text)
Accepted(ts, q) ==
    CASE q.kind \in {"select", "delete"} -> HasTable(ts, q.table)
      [] OTHER -> FALSE

\* query_text.strip().upper().startswith('SELECT')
IsSelect(q) == q.kind = "select"

\* f"{now}: {query_text[:50]}..."
HistoryItem(s, q) == [time |-> Len(s.history), text |-> [q EXCEPT !.len = Min(q.len, HistoryChars)]]

\* An execute_query that adds the history item for every text it runs.
execute_queryAlwaysListed(s, q) ==
    IF s.db # "open" THEN [s EXCEPT !.dialog = "warning"]
    ELSE IF q.kind = "empty" THEN s
    ELSE [s EXCEPT !.history = Append(@, HistoryItem(s, q)),
                   !.status = IF Accepted(s.tabs, q) THEN "query executed" ELSE "query failed"]
\* execute_query
execute_query(s, q) ==
    IF s.db # "open" THEN [s EXCEPT !.dialog = "warning"]
    ELSE IF q.kind = "empty" THEN s
    ELSE IF Accepted(s.tabs, q)
    THEN LET s1 == [s EXCEPT !.history = Append(@, HistoryItem(s, q))]
         IN  IF IsSelect(q)
             THEN [s1 EXCEPT !.model = Model("query", q.table, s.gen,
                                             ColNames(table_info(s.tabs, q.table))),
                             !.mrows = Select(s.tabs, q.table),
                             !.dirty = NoDirty,
                             !.status = "query executed"]
             ELSE LET s2 == [s1 EXCEPT !.tabs[TableIdx(s.tabs, q.table)].rows = <<>>]
                  IN  [RefreshCombo(s2) EXCEPT !.status = "query executed"]
    ELSE [s EXCEPT !.dialog = "critical", !.status = "query failed"]

ExecuteQuery ==
    /\ Running
    /\ \E q \in Queries :
         LET t == execute_query(St, q)
         IN  /\ Bounded(t)
             /\ Becomes(t, Ev("execute_query", St.db = "open" /\ q.kind # "empty",
                              St.db = "open" /\ q.kind # "empty" /\ Accepted(St.tabs, q),
                              q.table, "", NoCmd, 0, 0, None, None, <<>>, t))

\* The user picks another item of table_combo: currentTextChanged runs
\* display_table.
SelectTable ==
    /\ Running
    /\ \E i \in DOMAIN items :
         /\ items[i] # combo
         /\ LET t == display_table([St EXCEPT !.combo = items[i]], items[i])
            IN  Becomes(t, PlainEv("select_table", TRUE, TRUE, t))

\* create_table with the name entered: one identity column.
create_table(s, name) ==
    IF s.db # "open" THEN [s EXCEPT !.dialog = "warning"]
    ELSE LET r == CreateTable(s.tabs, name, <<Col("id", "INTEGER")>>)
         IN  IF r.ok
             THEN [RefreshCombo([s EXCEPT !.tabs = r.tabs]) EXCEPT !.status = "table created"]
             ELSE [s EXCEPT !.dialog = "critical"]

CreateTableAct ==
    /\ Running
    /\ \E name \in {TName, temp_table(TName)} :
         LET t == create_table(St, name)
         IN  /\ Bounded(t)
             /\ Becomes(t, Ev("create_table", St.db = "open", t.tabs # St.tabs,
                              name, "", NoCmd, 0, 0, None, None, <<>>, t))

\* ------------------------------------------------------------------ columns
\* add_column with the name entered (t.val).
add_columnOk(s, c) == s.db = "open" /\ s.combo # NoName /\ AddColumnSql(s.tabs, s.combo, c).ok
add_column(s, t) ==
    IF s.db # "open" \/ s.combo = NoName THEN Done([s EXCEPT !.dialog = "warning"])
    ELSE IF ~AddColumnSql(s.tabs, s.combo, t.val).ok THEN Done([s EXCEPT !.dialog = "critical"])
    ELSE Do([display_table([s EXCEPT !.tabs = AddColumnSql(s.tabs, s.combo, t.val).tabs],
                           s.combo)
                EXCEPT !.status = "column added"],
            <<CallCmd("Push", AddColumnCommand(s.gen, s.combo, t.val), 0, <<>>)>>)

\* delete_column with a column (t.val) picked from the headers of self.model
\* and the question answered Yes.  No statement raises, so the handler
\* always ends on its success lines.
delete_column(s, t) ==
    Do([display_table(Rebuild(s, s.gen, s.combo, t.val, "delete_column"), s.combo)
           EXCEPT !.status = "column deleted"],
       <<CallCmd("Push", DeleteColumnCommand(s.gen, s.combo, t.val), 0, <<>>)>>)

\* ------------------------------------------------------------------ rows
\* add_row with the dialog accepted: t.val are the texts of its fields.  A
\* Python error raised in a slot that runs inside setData is not caught by
\* the try of add_row: it ends the process.
add_row(s, t) ==
    IF s.model.kind = "none" \/ s.db # "open" THEN Done([s EXCEPT !.dialog = "warning"])
    ELSE Do(InsertRows(s, s.model, Len(s.mrows)),
            [c \in DOMAIN t.val |-> CallModel("SetData", s.model, Len(s.mrows), c - 1, t.val[c], 0)]
            \o <<CallModel("SubmitAll", s.model, 0, 0, None, 0),
                 CallModel("add_row_end", s.model, Len(s.mrows), 0, None, 0)>>)

\* The lines of add_row after `if self.model.submitAll():`.
add_row_end(s, t) ==
    IF s.ret
    THEN Do([s EXCEPT !.status = "row added"],
            <<CallCmd("Push", AddRowCommand(t.m, t.row), 0, <<>>)>>)
    ELSE Done([s EXCEPT !.dialog = "critical"])

\* ------------------------------------------------------------------ the undo stack
\* QUndoStack.undo(): nothing at index 0; else the command left of the index
\* is undone and the index set to its place.
undo(s, t) ==
    IF s.idx = 0 THEN Done(s)
    ELSE IF s.idx > Len(s.log) THEN Done([s EXCEPT !.crashed = TRUE])
    ELSE Do(s, <<CallCmd("UndoCmd", s.log[s.idx], 0, <<>>),
                 CallCmd("undo_end", NoCmd, s.idx, <<>>)>>)
undo_end(s, t) == Done([s EXCEPT !.idx = t.n - 1])

\* QUndoStack.redo(): nothing at the end of the list; else the command at
\* the index is redone and the index moves by one.  A push made while the
\* command runs has deleted it; what the stack then reads from it is not
\* defined: in.ub is "stale" (it reads as not obsolete: the index moves by
\* one from where the push left it), "obsolete" (it reads as obsolete: the
\* entry at its old place is taken out) or "abort".
redo(s, t) ==
    IF s.idx = Len(s.log) THEN Done(s)
    ELSE IF s.idx > Len(s.log) THEN Done([s EXCEPT !.crashed = TRUE])
    ELSE Do(s, <<CallCmd("RedoCmd", s.log[s.idx + 1], 0, <<>>),
                 CallCmd("redo_end", NoCmd, s.idx, s.pushes)>>)
redo_end(s, in, t) ==
    IF s.pushes = t.lg THEN Done([s EXCEPT !.idx = t.n + 1])
    ELSE CASE in.ub = "stale" -> Done([s EXCEPT !.idx = s.idx + 1])
           [] in.ub = "obsolete" -> Done([s EXCEPT !.log = RemoveAt(s.log, t.n + 1)])
           [] OTHER -> Done([s EXCEPT !.crashed = TRUE])

\* ------------------------------------------------------------------ running a handler
\* One call, by its name.
Step(s, in, t) ==
    CASE t.op = "SetData" -> SetData(s, in, t)
      [] t.op = "OnDataChanged" -> OnDataChanged(s, t)
      [] t.op = "Submit" -> Submit(s, t)
      [] t.op = "SubmitAll" -> SubmitAll(s, in, t)
      [] t.op = "Return" -> Return(s, t)
      [] t.op = "ShowMessage" -> ShowMessage(s, t)
      [] t.op = "Push" -> Push(s, t)
      [] t.op = "PushBody" -> PushBody(s, t)
      [] t.op = "RedoCmd" -> RedoCmd(s, t)
      [] t.op = "UndoCmd" -> UndoCmd(s, t)
      [] t.op = "add_column" -> add_column(s, t)
      [] t.op = "delete_column" -> delete_column(s, t)
      [] t.op = "add_row" -> add_row(s, t)
      [] t.op = "add_row_end" -> add_row_end(s, t)
      [] t.op = "undo" -> undo(s, t)
      [] t.op = "undo_end" -> undo_end(s, t)
      [] t.op = "redo" -> redo(s, t)
      [] t.op = "redo_end" -> redo_end(s, in, t)

RECURSIVE Run(_, _, _)
\* The calls of the list made in turn, each before the ones its caller still
\* has to make; nothing more runs once the process has been aborted.
Next1(r, in, rest) == Run(r.s, in, r.tasks \o rest)
Run(s, in, tasks) ==
    IF tasks = <<>> \/ s.crashed THEN s
    ELSE Next1(Step(s, in, Head(tasks)), in, Tail(tasks))

\* ------------------------------------------------------------------ the user's actions
AddColumn ==
    /\ Running
    /\ \E c \in NewColumns :
         LET t == Run(St, StdIn, <<CallWith("add_column", c)>>)
         IN  /\ Bounded(t)
             /\ Becomes(t, Ev("add_column", St.db = "open" /\ combo # NoName,
                              add_columnOk(St, c), combo, c, NoCmd, 0, 0, None, None,
                              tabs, t))

DeleteColumn ==
    /\ Running
    /\ db = "open" /\ combo # NoName
    /\ \E i \in DOMAIN model.cols :
         LET t == Run(St, StdIn, <<CallWith("delete_column", model.cols[i])>>)
         IN  /\ Bounded(t)
             /\ Becomes(t, Ev("delete_column", TRUE, t.status = "column deleted",
                              combo, model.cols[i], NoCmd, 0, 0, None, None, tabs, t))

\* The handler has pushed a command of the kind.
Pushed(t, kind) == \E i \in DOMAIN t.pushes : t.pushes[i].cmd.kind = kind

AddRow ==
    /\ Running
    /\ model.kind # "none" /\ db = "open"
    /\ \E vals \in [DOMAIN model.cols -> Texts], in \in InputsOf(St, TRUE, FALSE) :
         LET t == Run(St, in, <<CallWith("add_row", vals)>>)
         IN  /\ Bounded(t)
             /\ Becomes(t, Ev("add_row", TRUE, Pushed(t, "addrow") /\ ~t.crashed,
                              model.table, "", NoCmd, Len(mrows), 0, None, None, tabs, t))

\* The user edits cell (r, c) of the table view to the text v: the view
\* calls setData on self.model.
EditCell ==
    /\ Running
    /\ model.kind = "table"
    /\ \E r \in 0 .. Len(mrows) - 1, c \in 0 .. Len(model.cols) - 1, v \in Texts,
          in \in InputsOf(St, FALSE, FALSE) :
         LET t == Run(St, in, <<CallModel("SetData", model, r, c, v, 0)>>)
         IN  /\ Bounded(t)
             /\ t # St
             /\ Becomes(t, Ev("edit", TRUE, t.tabs # St.tabs, model.table, model.cols[c + 1],
                              NoCmd, r, c, Data(St, r, c), v, <<>>, t))

CmdAt(s, i) == IF i \in DOMAIN s.log THEN s.log[i] ELSE NoCmd

\* The Undo action of the toolbar, enabled while the stack can undo.
Undo ==
    /\ Running
    /\ idx > 0
    /\ \E in \in InputsOf(St, FALSE, FALSE) :
         LET t == Run(St, in, <<Call("undo")>>)
         IN  /\ Bounded(t)
             /\ Becomes(t, Ev("undo", TRUE, ~t.crashed, NoName, "", CmdAt(St, idx),
                              0, 0, None, None, <<>>, t))

\* undo_stack.redo()
Redo ==
    /\ Running
    /\ \E in \in InputsOf(St, FALSE, TRUE) :
         LET t == Run(St, in, <<Call("redo")>>)
         IN  /\ Bounded(t)
             /\ Becomes(t, Ev("redo", idx # Len(log), ~t.crashed, NoName, "",
                              CmdAt(St, idx + 1), 0, 0, None, None, <<>>, t))

\* ------------------------------------------------------------------ specifications
NoEv == PlainEv("init", FALSE, FALSE, [pushes |-> <<>>, drops |-> <<>>])

\* The state after DatabaseViewer.__init__.
Init ==
    /\ db = "none" /\ gen = 0 /\ live = {} /\ tabs = <<>>
    /\ items = <<>> /\ combo = NoName /\ model = NoModel /\ mrows = <<>>
    /\ dirty = NoDirty /\ log = <<>> /\ idx = 0 /\ history = <<>>
    /\ status = "no database" /\ dialog = "none"
    /\ crashed = FALSE /\ quit = FALSE /\ ev = NoEv

Next ==
    \/ OpenDatabase
    \/ CloseEvent
    \/ ExecuteQuery
    \/ SelectTable
    \/ CreateTableAct
    \/ AddColumn
    \/ DeleteColumn
    \/ AddRow
    \/ EditCell
    \/ Undo
    \/ Redo

Spec == Init /\ [][Next]_vars

\* ------------------------------------------------------------------ parts of Spec
\* The same handlers from the same initial state, with the first file the
\* user opens fixed and the handlers limited to those a property is about.
OpenFrom(files) == gen = 0 /\ OpenAny(files)

\* Cell edits and the undo stack, on a table of two columns and two rows.
EditFiles == {<<Table(TName, IdA, <<Row1, Row2>>)>>}
OpenEditFile == OpenFrom(EditFiles)
NextEdit == OpenEditFile \/ EditCell \/ Undo \/ Redo
SpecEdit == Init /\ [][NextEdit]_vars

\* Columns added and deleted, on tables with and without a table of the
\* temporary name beside them, and on a table of one column.
SchemaFiles ==
    { <<Table(TName, IdA, <<Row1, Row2>>)>>,
      <<Table(TName, OnlyA, <<<<"a">>, <<"b">>>>)>>,
      <<Table(TName, IdA, <<Row1>>), Table(temp_table(TName), IdA, <<Row2>>)>>,
      <<Table(temp_table(TName), OnlyA, <<<<"b">>>>), Table(TName, IdA, <<Row1>>)>> }
OpenSchemaFile == OpenFrom(SchemaFiles)
NextSchema == OpenSchemaFile \/ SelectTable \/ AddColumn \/ DeleteColumn
SpecSchema == Init /\ [][NextSchema]_vars

\* Columns deleted and the deletions undone, on the same files.
OpenDropFile == OpenFrom(SchemaFiles)
NextDrop == OpenDropFile \/ SelectTable \/ DeleteColumn \/ Undo \/ Redo
SpecDrop == Init /\ [][NextDrop]_vars

\* Rows added and the additions undone.
RowFiles == { <<Table(TName, IdA, <<Row1>>)>>, <<Table(TName, OnlyA, <<>>)>> }
OpenRowFile == OpenFrom(RowFiles)
NextRow == OpenRowFile \/ AddRow \/ Undo
SpecRow == Init /\ [][NextRow]_vars

\* Connections opened one after the other, queries, and commands pushed
\* under one connection and undone under a later one.
ConnFiles == {<<>>, <<Table(TName, IdA, <<Row1>>)>>}
OpenConnFile == OpenAny(ConnFiles)
NextConn == OpenConnFile \/ CloseEvent \/ ExecuteQuery \/ AddColumn \/ Undo
SpecConn == Init /\ [][NextConn]_vars

\* ------------------------------------------------------------------ undo and redo of cell edits
\* k calls of undo_stack.undo() followed by k calls of undo_stack.redo().
UndosRedos(k) == [i \in 1 .. 2 * k |-> IF i <= k THEN Call("undo") ELSE Call("redo")]

\* What a redo can be given.
RedoInputs == {in \in Inputs : in.re /\ in.acc}

\* The last handler was an edit or an Add Row whose commands are the last of
\* the stack, with nothing undone.
AfterPushes ==
    /\ Running
    /\ ev.op \in {"edit", "add_row"}
    /\ ev.pushes # <<>>
    /\ idx = Len(log)

\* C1: after pushes of cell-edit and add-row commands, k undo() calls and
\* then k redo() calls (k at most the number of commands in the stack) leave
\* the stored tables as they were right after the last push.
C1_UndoRedoRestores ==
    AfterPushes =>
        \A k \in 1 .. Len(log), in \in RedoInputs :
            LET s == Run(St, in, UndosRedos(k))
            IN  s.tabs = tabs

\* The last handler was an edit of a stored cell that changed the stored
\* value and was recorded by on_data_changed.
AfterEdit ==
    /\ Running
    /\ ev.op = "edit" /\ ev.ok
    /\ \E i \in DOMAIN ev.pushes :
         LET cmd == ev.pushes[i].cmd
         IN  cmd.kind = "update" /\ cmd.row = ev.row /\ cmd.col = ev.col /\ cmd.new = ev.val
    /\ mrows[ev.row + 1].k > 0

\* The stored value of the cell the last edit was about, in state s.
EditedCell(s) == StoredCell(s.tabs, ev.table, mrows[ev.row + 1].k, ev.column)

\* C2: after an edit that changed a stored cell from v_old to v_new and was
\* recorded by on_data_changed, the next undo() stores v_old in the cell
\* again and the redo() after it stores v_new.
C2_UndoRestoresOldValue ==
    AfterEdit =>
        \A in \in RedoInputs :
            LET u == Run(St, in, <<Call("undo")>>)
                r == Run(u, in, <<Call("redo")>>)
            IN  /\ EditedCell(u) = ev.old
                /\ EditedCell(r) = ev.val

\* The push p put its command right after the commands that were left of
\* the index and left the index at the end.
PushDiscards(p) ==
    /\ p.postLog = Append(SubSeq(p.preLog, 1, p.preIdx), p.cmd)
    /\ p.postIdx = Len(p.postLog)

\* The last handler was one of those the user pushes a command with, and it
\* pushed.
AfterUserPush ==
    /\ Running
    /\ ev.op \in {"edit", "add_row", "add_column", "delete_column"}
    /\ ev.pushes # <<>>

\* C3: every push leaves in the stack the commands that were left of the
\* index followed by the new command, with the index at the end (the
\* commands that had been undone are discarded); and a redo() right after a
\* handler that pushed changes neither the stack nor the stored tables.
C3_PushDiscardsRedoTail ==
    /\ \A i \in DOMAIN ev.pushes : PushDiscards(ev.pushes[i])
    /\ AfterUserPush =>
         /\ idx = Len(log)
         /\ \A in \in RedoInputs :
              LET r == Run(St, in, <<Call("redo")>>)
              IN  r.log = log /\ r.idx = idx /\ r.tabs = tabs /\ ~r.crashed

\* An edit made after an undo has discarded the undone commands, and the
\* redo after it does nothing.
C3_Witness ==
    /\ AfterUserPush
    /\ \E i \in DOMAIN ev.pushes :
         /\ ev.pushes[i].preIdx < Len(ev.pushes[i].preLog)
         /\ Len(ev.pushes[i].postLog) <= Len(ev.pushes[i].preLog)
    /\ Run(St, StdIn, <<Call("redo")>>).tabs = tabs
    /\ Run(St, StdIn, <<Call("redo")>>).log = log

\* ------------------------------------------------------------------ the rebuild sequence
\* Table n of `after` has the rows of table n of `before`, in their order,
\* with the values of every column but c.
RebuildPreserves(before, after, n, c) ==
    /\ HasTable(after, n)
    /\ Len(GetTable(after, n).rows) = Len(GetTable(before, n).rows)
    /\ \A k \in DOMAIN GetTable(before, n).rows, j \in DOMAIN GetTable(before, n).cols :
         GetTable(before, n).cols[j].name # c =>
            StoredCell(after, n, k, GetTable(before, n).cols[j].name)
                = GetTable(before, n).rows[k][j]

\* C4: when delete_column (with the DeleteColumnCommand.redo that its push
\* runs) has rebuilt table T without its column c, a table named T still
\* exists, with as many rows in the same order and with every value of the
\* other columns unchanged, whatever the database held (a table T_temp, a
\* table T whose only column is c).
C4_RebuildPreservesRows ==
    [][(ev'.op = "delete_column" /\ HasTable(tabs, ev'.table)
          /\ HasCol(GetTable(tabs, ev'.table).cols, ev'.column))
        => RebuildPreserves(tabs, tabs', ev'.table, ev'.column)]_vars

\* C5: add_column(T, x) for a column x that T does not have, followed by
\* delete_column(T, x), leaves T with the columns (names and declared
\* types, in order) and the values it had before add_column.
C5_AddThenDeleteColumn ==
    [][(ev.op = "add_column" /\ ev.ok /\ ev'.op = "delete_column"
          /\ ev'.table = ev.table /\ ev'.column = ev.column)
        => /\ HasTable(tabs', ev.table)
           /\ GetTable(tabs', ev.table).cols = GetTable(ev.pre, ev.table).cols
           /\ GetTable(tabs', ev.table).rows = GetTable(ev.pre, ev.table).rows]_vars

\* C6: a run of the rebuild sequence for (T, c) with c not a column of T
\* sends none of CREATE, INSERT, DROP and RENAME, and the handler it runs in
\* raises an error.
C6_ColumnNotFound ==
    \A i \in DOMAIN ev.drops :
        ~ev.drops[i].present =>
            /\ ev.drops[i].oks = <<FALSE, FALSE, FALSE, FALSE>>
            /\ dialog = "critical"

\* C7: when the engine rejects a statement of the rebuild sequence that
\* delete_column sends, delete_column raises an error, does not show its
\* success status and pushes no DeleteColumnCommand.
C7_RejectedStatementReported ==
    (/\ ev.op = "delete_column"
     /\ ev.drops # <<>>
     /\ ev.drops[1].who = "delete_column"
     /\ \E j \in 1 .. 4 : ~ev.drops[1].oks[j])
    => /\ dialog = "critical"
       /\ status # "column deleted"
       /\ \A i \in DOMAIN ev.pushes : ev.pushes[i].cmd.kind # "delcol"

\* ------------------------------------------------------------------ the query history
\* history is the start of history'.
Extends(h1, h2) == Len(h1) <= Len(h2) /\ SubSeq(h2, 1, Len(h1)) = h1

\* C8 as the specification has it: every text that is not empty, run while
\* a database is open, adds one item to the query history, whether the
\* engine accepts the statement or rejects it, and no item changes.
C8_EveryQueryListed ==
    [][(ev'.op = "execute_query" /\ ev'.done)
        => (Len(history') = Len(history) + 1 /\ Extends(history, history'))]_vars

\* C8: a text that is not empty, run while a database is open, adds one
\* item to the end of the query history (its first HistoryChars characters)
\* when the engine accepts the statement and none when it rejects it; no
\* handler removes or changes an item.
C8_AcceptedQueryListed ==
    [][/\ Extends(history, history')
       /\ (ev'.op = "execute_query" /\ ev'.ok)
            => /\ Len(history') = Len(history) + 1
               /\ history'[Len(history')].text.len <= HistoryChars
       /\ ~(ev'.op = "execute_query" /\ ev'.ok) => history' = history]_vars

\* A statement was rejected after two were accepted: the history holds two items.
C8_Witness ==
    /\ ev.op = "execute_query" /\ ev.done /\ ~ev.ok
    /\ Len(history) = 2
    /\ history[2].text.len = HistoryChars

\* ------------------------------------------------------------------ connections
\* C9: after open_database with a file chosen the undo stack is empty, and
\* in every state every command of the undo stack was built on the
\* connection that self.db stands for, also when the new file did not open.
C9_LogOfCurrentConnection ==
    /\ ev.op = "open_database" => log = <<>>
    /\ \A i \in DOMAIN log : log[i].gen = gen

\* C10: at most one connection is open, and it is the one opened last: an
\* open_database has closed the one before; after closeEvent none is open,
\* and a closeEvent with none open changes nothing of the connection.
C10_OneConnection ==
    [][/\ Cardinality(live') <= 1
       /\ live' \subseteq {gen'}
       /\ (db' = "open") = (live' = {gen'})
       /\ quit' => live' = {}
       /\ (ev'.op = "closeEvent" /\ live = {}) => (db' = db /\ gen' = gen)]_vars

\* A second connection is open and the first one is not.
C10_Witness ==
    /\ ev.op = "open_database" /\ ev.ok
    /\ gen = 2 /\ live = {2}
    /\ log = <<>>

\* ------------------------------------------------------------------ undo of a deleted column
\* Table n of `after` has, next to what RebuildPreserves says, a column c of
\* type TEXT that is NULL in every row.
ColumnBackEmpty(before, after, n, c) ==
    /\ RebuildPreserves(before, after, n, c)
    /\ \E j \in DOMAIN GetTable(after, n).cols : GetTable(after, n).cols[j] = Col(c, "TEXT")
    /\ \A k \in DOMAIN GetTable(after, n).rows : StoredCell(after, n, k, c) = NullV

\* An undo that follows delete_column(T, c) for a column c that T had.
UndoOfDelete ==
    /\ ev.op = "delete_column" /\ ev'.op = "undo"
    /\ HasTable(ev.pre, ev.table) /\ HasCol(GetTable(ev.pre, ev.table).cols, ev.column)

\* C11: delete_column(T, c) followed by undo() leaves T with a column c of
\* type TEXT that is NULL in every row, and with the rows and the values of
\* all other columns it had before the delete; the values of c are not
\* restored.
C11_UndoOfDeleteIsLossy ==
    [][UndoOfDelete => ColumnBackEmpty(ev.pre, tabs', ev.table, ev.column)]_vars

\* ------------------------------------------------------------------ undo and redo move the index only
\* undo() from index i and list l has left the list alone and the index at
\* i - 1 (at i when i = 0); redo() the same with i + 1 (i at the end).
UndoMoved(l, i, l2, i2) == l2 = l /\ i2 = (IF i = 0 THEN 0 ELSE i - 1)
RedoMoved(l, i, l2, i2) == l2 = l /\ i2 = (IF i = Len(l) THEN i ELSE i + 1)

\* C12: undo() and redo() change only the index of the undo stack: undo() at
\* index 0 and redo() at the end change nothing, otherwise the index moves
\* by one, and the list of commands is the same before and after; the
\* setData of an UpdateCommand, which signals dataChanged to
\* on_data_changed, pushes no command and discards none.
C12_UndoRedoMoveOnlyCursor ==
    [][/\ (ev'.op = "undo" => UndoMoved(log, idx, log', idx') /\ ev'.pushes = <<>>)
       /\ (ev'.op = "redo" => RedoMoved(log, idx, log', idx') /\ ev'.pushes = <<>>)
       /\ (idx = 0 => \A in \in RedoInputs :
                         Run(St, in, <<Call("undo")>>).log = log
                         /\ Run(St, in, <<Call("undo")>>).idx = 0)]_vars

\* ------------------------------------------------------------------ rows added
\* model.rowCount() of the model shown.
RowCount(rows) == Len(rows)
\* The number of rows table n holds.
StoredCount(ts, n) == IF HasTable(ts, n) THEN Len(GetTable(ts, n).rows) ELSE 0

============================================================================
